---- MODULE Spec2Model ----
(***************************************************************************)
(* A model of src/main.py: the start-up of the script (credential check,   *)
(* LLM clients, agents, workflow), the four tool functions acting on the   *)
(* run's state store, the agent workflow that drives them, and the console *)
(* renderer of run_workflow that consumes the event stream.                *)
(*                                                                         *)
(* Text is modelled as a sequence of one-character strings, so that a      *)
(* slice, a prefix and a length are what they are in the program.          *)
(***************************************************************************)
EXTENDS Integers, Sequences, FiniteSets, TLC

VARIABLES
    pc,                 \* position of the script: module level, run_workflow, ended
    env,                \* the process environment's GOOGLE_API_KEY
    dotenv,             \* the GOOGLE_API_KEY entry of the .env file
    clients,            \* the LLM clients constructed so far
    workflow,           \* TRUE once agent_workflow is constructed
    network,            \* TRUE once any LLM request was sent
    store,              \* handler.ctx.store: key "state" once a run exists
    active,             \* the workflow's active agent, NoAgent before a run
    phase,              \* the workflow's step within the active agent's turn
    pending,            \* the tool call the active agent's LLM asked for
    turns,              \* LLM turns taken in this run
    ret,                \* the value the latest tool function returned
    last,               \* the arguments of the latest completed call of each tool
    handoff,            \* the latest handoff honored, <<from, to>>
    queue,              \* events emitted and not yet delivered to the renderer
    streamed,           \* number of events emitted on the stream
    current_agent,      \* run_workflow's local current_agent
    event,              \* the event the renderer handled last
    printed,            \* what the renderer printed for that event
    banners,            \* number of agent banners printed
    carried,            \* the last agent name an event carried and how often it changed
    final               \* what run_workflow printed after the stream ended

vars == <<pc, env, dotenv, clients, workflow, network, store, active, phase,
          pending, turns, ret, last, handoff, queue, streamed, current_agent,
          event, printed, banners, carried, final>>

startVars == <<env, dotenv, clients, workflow, network>>
runVars == <<store, active, phase, pending, turns, ret, last, handoff>>
streamVars == <<queue, streamed>>
renderVars == <<current_agent, event, printed, banners, carried>>

----------------------------------------------------------------------------
(* Bounds of the model. *)

MaxTextLen == 2     \* longest text an LLM passes to a tool
MaxTurns == 4       \* LLM turns that may still ask for a tool call
MaxQueue == 1       \* events buffered between the workflow and the renderer
MaxEvents == 3      \* events of an arbitrary stream (SpecRender)
MaxExtra == 2       \* characters beyond the truncation limit in a tool output

----------------------------------------------------------------------------
(* Text. *)

Alphabet == <<"a", "b", "c">>

\* The text of n characters a, b, c, a, b, c, ...
Fill(n) == [i \in 1..n |-> Alphabet[((i - 1) % 3) + 1]]

\* The texts an LLM may pass as an argument or return as a completion.
Texts == {Fill(n) : n \in 0..MaxTextLen}

\* Python's s[:n] for n >= 0.
Slice(s, n) == SubSeq(s, 1, IF Len(s) < n THEN Len(s) ELSE n)

\* Python's truth value of an optional string: None and "" are false.
None == [none |-> TRUE, val |-> <<>>]
Some(s) == [none |-> FALSE, val |-> s]
Truthy(v) == ~v.none /\ v.val # <<>>

ApiKey == <<"k", "e", "y">>

----------------------------------------------------------------------------
(* Module level: environment, LLM clients, agents, workflow. *)

\* load_dotenv() sets a variable only when the environment does not hold it.
load_dotenv ==
    /\ pc = "load_dotenv"
    /\ env' = IF env.none THEN dotenv ELSE env
    /\ pc' = "check_key"
    /\ UNCHANGED <<dotenv, clients, workflow, network>>
    /\ UNCHANGED <<runVars, streamVars, renderVars, final>>

\* A check that takes only an unset variable for a missing one.
KeyMissingUnsetOnly == env.none

\* if not os.getenv("GOOGLE_API_KEY"): raise ValueError(...)
KeyMissing == ~Truthy(env)

check_key ==
    /\ pc = "check_key"
    /\ pc' = IF KeyMissing THEN "failed" ELSE "setup_llm"
    /\ UNCHANGED <<startVars, runVars, streamVars, renderVars, final>>

\* llm = GoogleGenAI(model="gemini-2.5-pro")
setup_llm ==
    /\ pc = "setup_llm"
    /\ clients' = clients \cup {"llm"}
    /\ pc' = "setup_llm_with_search"
    /\ UNCHANGED <<env, dotenv, workflow, network>>
    /\ UNCHANGED <<runVars, streamVars, renderVars, final>>

\* llm_with_search = GoogleGenAI(..., tools=[search tool])
setup_llm_with_search ==
    /\ pc = "setup_llm_with_search"
    /\ clients' = clients \cup {"llm_with_search"}
    /\ pc' = "create_workflow"
    /\ UNCHANGED <<env, dotenv, workflow, network>>
    /\ UNCHANGED <<runVars, streamVars, renderVars, final>>

AgentNames == {"ResearchAgent", "WriteAgent", "ReviewAgent"}
NoAgent == "None"

\* tools=[...] of each FunctionAgent
AgentTools(agent) ==
    CASE agent = "ResearchAgent" -> {"search_web", "record_notes"}
      [] agent = "WriteAgent" -> {"write_report"}
      [] agent = "ReviewAgent" -> {"review_report"}

\* Agents that may hand off to any agent.
can_handoff_to_any(agent) == AgentNames

\* can_handoff_to=[...] of each FunctionAgent
can_handoff_to(agent) ==
    CASE agent = "ResearchAgent" -> {"WriteAgent"}
      [] agent = "WriteAgent" -> {"ReviewAgent", "ResearchAgent"}
      [] agent = "ReviewAgent" -> {"ResearchAgent", "WriteAgent"}

\* root_agent=research_agent.name
root_agent == "ResearchAgent"

NotWrittenYet == <<"N", "o", "t", " ", "w", "r", "i", "t", "t", "e", "n", " ", "y", "e", "t", ".">>
ReviewRequired == <<"R", "e", "v", "i", "e", "w", " ", "r", "e", "q", "u", "i", "r", "e", "d", ".">>

\* A dict with no entry.
EmptyDict == [k \in {} |-> <<>>]

\* An initial state whose report is the empty text.
initial_state_blank ==
    [research_notes |-> EmptyDict,
     report_content |-> <<>>,
     review |-> ReviewRequired]

\* initial_state={...}
initial_state ==
    [research_notes |-> EmptyDict,
     report_content |-> NotWrittenYet,
     review |-> ReviewRequired]

\* The three FunctionAgent(...) and agent_workflow = AgentWorkflow(...)
create_workflow ==
    /\ pc = "create_workflow"
    /\ workflow' = TRUE
    /\ pc' = "main"
    /\ UNCHANGED <<env, dotenv, clients, network>>
    /\ UNCHANGED <<runVars, streamVars, renderVars, final>>

----------------------------------------------------------------------------
(* The tool functions. Each is one scoped edit of the state store (or   *)
(* one LLM request) and returns a text.                                  *)

Titles == {<<"x">>, <<"y">>}

\* d[k] = v on a dict
Put(d, k, v) == [x \in (DOMAIN d) \cup {k} |-> IF x = k THEN v ELSE d[x]]

NotesRecorded == <<"N", "o", "t", "e", "s", " ", "r", "e", "c", "o", "r", "d", "e", "d", ".">>
ReportWritten == <<"R", "e", "p", "o", "r", "t", " ", "w", "r", "i", "t", "t", "e", "n", ".">>
ReportReviewed == <<"R", "e", "p", "o", "r", "t", " ", "r", "e", "v", "i", "e", "w", "e", "d", ".">>

\* To run a tool is to be the call the workflow has in flight.
InFlight(tool_name) ==
    /\ pc = "streaming"
    /\ phase = "exec"
    /\ pending.tool_name = tool_name

\* search_web: response = await llm_with_search.acomplete(...); str(response).
\* The request may fail; the error is not caught.
search_web(query, response) ==
    /\ InFlight("search_web")
    /\ pending.tool_kwargs = <<query>>
    /\ network' = TRUE
    /\ IF response.none
         THEN /\ pc' = "aborted"
              /\ UNCHANGED ret
         ELSE /\ pc' = pc
              /\ ret' = response.val
    /\ UNCHANGED store

\* record_notes that keeps the notes a title already has (setdefault).
record_notes_keep_first(notes, notes_title) ==
    /\ InFlight("record_notes")
    /\ pending.tool_kwargs = <<notes, notes_title>>
    /\ LET state == store["state"]
           old == state["research_notes"]
       IN store' = [store EXCEPT !["state"] =
                       [state EXCEPT !["research_notes"] =
                           IF notes_title \in DOMAIN old THEN old
                           ELSE Put(old, notes_title, notes)]]
    /\ ret' = NotesRecorded
    /\ UNCHANGED <<pc, network>>

\* record_notes that returns without its edit reaching the store.
record_notes_unsaved(notes, notes_title) ==
    /\ InFlight("record_notes")
    /\ pending.tool_kwargs = <<notes, notes_title>>
    /\ ret' = NotesRecorded
    /\ UNCHANGED <<pc, network, store>>

\* record_notes that replaces the whole mapping by the one new entry.
record_notes_replacing(notes, notes_title) ==
    /\ InFlight("record_notes")
    /\ pending.tool_kwargs = <<notes, notes_title>>
    /\ store' = [store EXCEPT !["state"]["research_notes"] =
                    Put(EmptyDict, notes_title, notes)]
    /\ ret' = NotesRecorded
    /\ UNCHANGED <<pc, network>>

\* record_notes: inside edit_state, create research_notes when missing, then
\* research_notes[notes_title] = notes.
record_notes(notes, notes_title) ==
    /\ InFlight("record_notes")
    /\ pending.tool_kwargs = <<notes, notes_title>>
    /\ LET state == store["state"]
           ensured == IF "research_notes" \in DOMAIN state
                        THEN state["research_notes"]
                        ELSE EmptyDict
       IN store' = [store EXCEPT !["state"] =
                       [state EXCEPT !["research_notes"] =
                           Put(ensured, notes_title, notes)]]
    /\ ret' = NotesRecorded
    /\ UNCHANGED <<pc, network>>

\* write_report that stores all but the last character of its argument.
write_report_partial(report_content) ==
    /\ InFlight("write_report")
    /\ pending.tool_kwargs = <<report_content>>
    /\ store' = [store EXCEPT !["state"]["report_content"] =
                    Slice(report_content, Len(report_content) - 1)]
    /\ ret' = ReportWritten
    /\ UNCHANGED <<pc, network>>

\* write_report: inside edit_state, state["report_content"] = report_content.
write_report(report_content) ==
    /\ InFlight("write_report")
    /\ pending.tool_kwargs = <<report_content>>
    /\ store' = [store EXCEPT !["state"]["report_content"] = report_content]
    /\ ret' = ReportWritten
    /\ UNCHANGED <<pc, network>>

\* review_report: inside edit_state, state["review"] = review.
review_report(review) ==
    /\ InFlight("review_report")
    /\ pending.tool_kwargs = <<review>>
    /\ store' = [store EXCEPT !["state"]["review"] = review]
    /\ ret' = ReportReviewed
    /\ UNCHANGED <<pc, network>>

----------------------------------------------------------------------------
(* Events of the stream. *)

\* A tool's output as the event carries it: a text, a ToolOutput object
\* around a text, an integer or None.
StrOutput(s) == [kind |-> "str", text |-> s, num |-> 0]
ToolOutput(s) == [kind |-> "ToolOutput", text |-> s, num |-> 0]
IntOutput(n) == [kind |-> "int", text |-> <<>>, num |-> n]
NoneOutput == [kind |-> "None", text |-> <<>>, num |-> 0]

NoCall == [tool_name |-> "None", tool_kwargs |-> <<>>, to_agent |-> NoAgent]

Event(type, agent, content, tool_calls, call, output) ==
    [type |-> type, current_agent_name |-> agent, content |-> content,
     tool_calls |-> tool_calls, tool_name |-> call.tool_name,
     tool_kwargs |-> call.tool_kwargs, tool_output |-> output]

NoEvent == Event("None", NoAgent, <<>>, <<>>, NoCall, NoneOutput)
AgentInput(agent) == Event("AgentInput", agent, <<>>, <<>>, NoCall, NoneOutput)
AgentOutput(agent, content, tool_calls) ==
    Event("AgentOutput", agent, content, tool_calls, NoCall, NoneOutput)
ToolCall(call) == Event("ToolCall", NoAgent, <<>>, <<>>, call, NoneOutput)
ToolCallResult(call, output) ==
    Event("ToolCallResult", NoAgent, <<>>, <<>>, call, output)

----------------------------------------------------------------------------
(* The run: agent_workflow.run(...) and the workflow's steps. The        *)
(* workflow emits AgentInput, AgentOutput, ToolCall and ToolCallResult   *)
(* events, runs one tool call at a time and honors a handoff only to an  *)
(* agent the active agent may hand off to.                               *)

\* notes: title -> notes of the latest record_notes call with that title;
\* prev: title -> notes of the call before it; report, review: <<>> or <<arg>>.
NoLast == [notes |-> EmptyDict, prev |-> EmptyDict, report |-> <<>>, review |-> <<>>]

Emit(ev) ==
    /\ Len(queue) < MaxQueue
    /\ queue' = Append(queue, ev)
    /\ streamed' = streamed + 1

\* handler = agent_workflow.run(user_msg=...); current_agent = None
start_run ==
    /\ pc = "main"
    /\ pc' = "streaming"
    /\ store' = [k \in {"state"} |-> initial_state]
    /\ active' = root_agent
    /\ phase' = "setup"
    /\ current_agent' = NoAgent
    /\ UNCHANGED <<startVars, pending, turns, ret, last, handoff>>
    /\ UNCHANGED <<streamVars, event, printed, banners, carried, final>>

\* The active agent takes over the conversation.
setup_agent ==
    /\ pc = "streaming"
    /\ phase = "setup"
    /\ Emit(AgentInput(active))
    /\ phase' = "step"
    /\ UNCHANGED <<pc, startVars, store, active, pending, turns, ret, last, handoff>>
    /\ UNCHANGED <<renderVars, final>>

Contents == {Fill(0), Fill(1)}
Queries == {Fill(1)}
Responses == {None, Some(Fill(MaxTextLen))}

\* The tool calls the LLM of an agent may ask for: one of the agent's tools
\* with any arguments, or a handoff to any agent it names.
Calls(agent) ==
    {[tool_name |-> "search_web", tool_kwargs |-> <<q>>, to_agent |-> NoAgent] :
        q \in IF "search_web" \in AgentTools(agent) THEN Queries ELSE {}}
    \cup
    {[tool_name |-> "record_notes", tool_kwargs |-> <<nt[1], nt[2]>>, to_agent |-> NoAgent] :
        nt \in IF "record_notes" \in AgentTools(agent) THEN Texts \X Titles ELSE {}}
    \cup
    {[tool_name |-> "write_report", tool_kwargs |-> <<r>>, to_agent |-> NoAgent] :
        r \in IF "write_report" \in AgentTools(agent) THEN Texts ELSE {}}
    \cup
    {[tool_name |-> "review_report", tool_kwargs |-> <<r>>, to_agent |-> NoAgent] :
        r \in IF "review_report" \in AgentTools(agent) THEN Texts ELSE {}}
    \cup
    {[tool_name |-> "handoff", tool_kwargs |-> <<>>, to_agent |-> a] : a \in AgentNames}

\* One LLM turn of the active agent that asks for a tool call.
agent_step ==
    /\ pc = "streaming"
    /\ phase = "step"
    /\ turns < MaxTurns
    /\ \E content \in Contents, call \in Calls(active) :
          /\ Emit(AgentOutput(active, content, <<call.tool_name>>))
          /\ pending' = call
    /\ network' = TRUE
    /\ turns' = turns + 1
    /\ phase' = "call"
    /\ UNCHANGED <<pc, env, dotenv, clients, workflow, store, active, ret, last, handoff>>
    /\ UNCHANGED <<renderVars, final>>

\* One LLM turn that gives the final answer: no tool call, the run ends.
agent_final ==
    /\ pc = "streaming"
    /\ phase = "step"
    /\ \E content \in Contents : Emit(AgentOutput(active, content, <<>>))
    /\ network' = TRUE
    /\ phase' = "done"
    /\ UNCHANGED <<pc, env, dotenv, clients, workflow>>
    /\ UNCHANGED <<store, active, pending, turns, ret, last, handoff>>
    /\ UNCHANGED <<renderVars, final>>

\* The LLM request of a turn fails: the run is aborted.
agent_error ==
    /\ pc = "streaming"
    /\ phase = "step"
    /\ network' = TRUE
    /\ pc' = "aborted"
    /\ UNCHANGED <<env, dotenv, clients, workflow, runVars, streamVars>>
    /\ UNCHANGED <<renderVars, final>>

\* The workflow announces the tool call and starts it.
call_tool ==
    /\ pc = "streaming"
    /\ phase = "call"
    /\ Emit(ToolCall(pending))
    /\ phase' = "exec"
    /\ UNCHANGED <<pc, startVars, store, active, pending, turns, ret, last, handoff>>
    /\ UNCHANGED <<renderVars, final>>

\* The arguments of the latest completed call of each tool.
Completed(call) ==
    CASE call.tool_name = "record_notes" ->
            [last EXCEPT
               !.notes = Put(@, call.tool_kwargs[2], call.tool_kwargs[1]),
               !.prev = IF call.tool_kwargs[2] \in DOMAIN last.notes
                          THEN Put(@, call.tool_kwargs[2], last.notes[call.tool_kwargs[2]])
                          ELSE @]
      [] call.tool_name = "write_report" ->
            [last EXCEPT !.report = <<call.tool_kwargs[1]>>]
      [] call.tool_name = "review_report" ->
            [last EXCEPT !.review = <<call.tool_kwargs[1]>>]
      [] OTHER -> last

\* The tool function returned (or raised): its result goes to the stream and
\* the active agent gets the next turn.
Returned ==
    IF pc' = "aborted"
      THEN UNCHANGED <<streamVars, phase, pending, last>>
      ELSE /\ Emit(ToolCallResult(pending, ToolOutput(ret')))
           /\ phase' = "setup"
           /\ pending' = NoCall
           /\ last' = Completed(pending)

run_search_web ==
    /\ \E query \in Queries, response \in Responses : search_web(query, response)
    /\ Returned
    /\ UNCHANGED <<env, dotenv, clients, workflow, active, turns, handoff>>
    /\ UNCHANGED <<renderVars, final>>

run_record_notes ==
    /\ \E notes \in Texts, notes_title \in Titles : record_notes(notes, notes_title)
    /\ Returned
    /\ UNCHANGED <<env, dotenv, clients, workflow, active, turns, handoff>>
    /\ UNCHANGED <<renderVars, final>>

run_write_report ==
    /\ \E report_content \in Texts : write_report(report_content)
    /\ Returned
    /\ UNCHANGED <<env, dotenv, clients, workflow, active, turns, handoff>>
    /\ UNCHANGED <<renderVars, final>>

run_review_report ==
    /\ \E review \in Texts : review_report(review)
    /\ Returned
    /\ UNCHANGED <<env, dotenv, clients, workflow, active, turns, handoff>>
    /\ UNCHANGED <<renderVars, final>>

HandoffDone == <<"H", "a", "n", "d", "o", "f", "f", " ", "d", "o", "n", "e", ".">>
HandoffRefused == <<"H", "a", "n", "d", "o", "f", "f", " ", "r", "e", "f", "u", "s", "e", "d", ".">>

\* The handoff tool: honored when the target is one the active agent may
\* hand off to, refused otherwise.
run_handoff ==
    /\ InFlight("handoff")
    /\ IF pending.to_agent \in can_handoff_to(active)
         THEN /\ active' = pending.to_agent
              /\ handoff' = <<active, pending.to_agent>>
              /\ ret' = HandoffDone
         ELSE /\ ret' = HandoffRefused
              /\ UNCHANGED <<active, handoff>>
    /\ UNCHANGED pc
    /\ Returned
    /\ UNCHANGED <<startVars, store, turns>>
    /\ UNCHANGED <<renderVars, final>>

----------------------------------------------------------------------------
(* run_workflow's loop over handler.stream_events() and its final prints. *)

TruncLimit == 300

DigitChars == <<"0", "1", "2", "3", "4", "5", "6", "7", "8", "9">>

RECURSIVE Digits(_)
Digits(n) ==
    IF n < 10 THEN <<DigitChars[n + 1]>>
    ELSE Digits(n \div 10) \o <<DigitChars[(n % 10) + 1]>>

\* str(event.tool_output)
Str(output) ==
    CASE output.kind = "str" -> output.text
      [] output.kind = "ToolOutput" -> output.text
      [] output.kind = "int" ->
            IF output.num < 0 THEN <<"-">> \o Digits(0 - output.num)
            ELSE Digits(output.num)
      [] output.kind = "None" -> <<"N", "o", "n", "e">>

\* hasattr(event, "current_agent_name")
HasAgentName(ev) == ev.type \in {"AgentInput", "AgentOutput"}

\* "handoff" in event.tool_name
IsHandoff(tool_name) == tool_name = "handoff"

\* One print(...): the literal text, then a text, a list of names or the
\* arguments, then the literal text that follows.
Line(label, text, list, args, tail) ==
    [label |-> label, text |-> text, list |-> list, args |-> args, tail |-> tail]

Result(cur, banner, raised, lines) ==
    [current_agent |-> cur, banner |-> banner, raised |-> raised, lines |-> lines]

\* A banner branch that does not assign current_agent.
BannerForgetful(ev, cur) ==
    Result(cur, TRUE, FALSE,
           <<Line("Agent: ", <<>>, <<cur>>, <<>>, "")>>)

\* current_agent = event.current_agent_name; print the banner.
Banner(ev, cur) ==
    Result(ev.current_agent_name, TRUE, FALSE,
           <<Line("Agent: ", <<>>, <<ev.current_agent_name>>, <<>>, "")>>)

\* The AgentOutput branch: the content when it is not empty, the planned
\* tool names when there are tool calls.
Output(ev, cur) ==
    Result(cur, FALSE, FALSE,
           (IF ev.content # <<>>
              THEN <<Line("Output: ", ev.content, <<>>, <<>>, "")>> ELSE <<>>)
           \o
           (IF ev.tool_calls # <<>>
              THEN <<Line("Planning to use tools: ", <<>>, ev.tool_calls, <<>>, "")>>
              ELSE <<>>))

\* A ToolCallResult branch that slices the output itself: slicing raises
\* on an output that is not a text.
ToolResultUnconverted(ev, cur) ==
    IF ev.tool_output.kind = "str"
      THEN Result(cur, FALSE, FALSE,
                  <<Line("Tool Result", <<>>, <<ev.tool_name>>, <<>>, ""),
                    Line("    Output: ", Slice(ev.tool_output.text, TruncLimit),
                         <<>>, <<>>, "...")>>)
      ELSE Result(cur, FALSE, TRUE,
                  <<Line("Tool Result", <<>>, <<ev.tool_name>>, <<>>, "")>>)

\* A ToolCallResult branch that cuts one character late.
ToolResultOffByOne(ev, cur) ==
    Result(cur, FALSE, FALSE,
           <<Line("Tool Result", <<>>, <<ev.tool_name>>, <<>>, ""),
             Line("    Output: ", Slice(Str(ev.tool_output), TruncLimit + 1),
                  <<>>, <<>>, "...")>>)

\* The ToolCallResult branch: the tool name, then
\* f"    Output: {str(event.tool_output)[:300]}..."
ToolResult(ev, cur) ==
    Result(cur, FALSE, FALSE,
           <<Line("Tool Result", <<>>, <<ev.tool_name>>, <<>>, ""),
             Line("    Output: ", Slice(Str(ev.tool_output), TruncLimit),
                  <<>>, <<>>, "...")>>)

\* The ToolCall branch: name and arguments, except for a handoff.
Calling(ev, cur) ==
    Result(cur, FALSE, FALSE,
           IF ~IsHandoff(ev.tool_name)
             THEN <<Line("Calling Tool: ", <<>>, <<ev.tool_name>>, <<>>, ""),
                    Line("    With arguments: ", <<>>, <<>>, ev.tool_kwargs, "")>>
             ELSE <<>>)

\* The body of the loop for one event, an if/elif chain: the new
\* current_agent, the lines printed, whether a banner is among them and
\* whether the body raised.
Rendered(ev, cur) ==
    IF HasAgentName(ev) /\ ev.current_agent_name # cur THEN Banner(ev, cur)
    ELSE IF ev.type = "AgentOutput" THEN Output(ev, cur)
    ELSE IF ev.type = "ToolCallResult" THEN ToolResult(ev, cur)
    ELSE IF ev.type = "ToolCall" THEN Calling(ev, cur)
    ELSE Result(cur, FALSE, FALSE, <<>>)

\* The agent names the handled events carried: the last one and how often
\* the name changed (the first name is a change from none).
Carried(ev) ==
    IF HasAgentName(ev)
      THEN [last |-> ev.current_agent_name,
            changes |-> carried.changes
                        + (IF ev.current_agent_name # carried.last THEN 1 ELSE 0)]
      ELSE carried

\* One iteration of: async for event in handler.stream_events()
render ==
    /\ pc = "streaming"
    /\ queue # <<>>
    /\ LET ev == Head(queue)
           r == Rendered(ev, current_agent)
       IN /\ event' = ev
          /\ current_agent' = r.current_agent
          /\ printed' = r.lines
          /\ banners' = banners + (IF r.banner THEN 1 ELSE 0)
          /\ pc' = IF r.raised THEN "aborted" ELSE pc
          /\ carried' = Carried(ev)
    /\ queue' = Tail(queue)
    /\ UNCHANGED <<startVars, runVars, streamed, final>>

\* After the loop: state = await handler.ctx.store.get("state"), then print
\* state["report_content"] and state["review"].
complete ==
    /\ pc = "streaming"
    /\ phase = "done"
    /\ queue = <<>>
    /\ final' = <<store["state"]["report_content"], store["state"]["review"]>>
    /\ pc' = "complete"
    /\ UNCHANGED <<startVars, runVars, streamVars, renderVars>>

----------------------------------------------------------------------------
(* The script from its first line. *)

Init ==
    /\ pc = "load_dotenv"
    /\ env \in {None, Some(<<>>), Some(ApiKey)}
    /\ dotenv \in {None, Some(<<>>), Some(ApiKey)}
    /\ clients = {}
    /\ workflow = FALSE
    /\ network = FALSE
    /\ store = EmptyDict
    /\ active = NoAgent
    /\ phase = "idle"
    /\ pending = NoCall
    /\ turns = 0
    /\ ret = <<>>
    /\ last = NoLast
    /\ handoff = <<>>
    /\ queue = <<>>
    /\ streamed = 0
    /\ current_agent = NoAgent
    /\ event = NoEvent
    /\ printed = <<>>
    /\ banners = 0
    /\ carried = [last |-> NoAgent, changes |-> 0]
    /\ final = <<>>

Next ==
    \/ load_dotenv
    \/ check_key
    \/ setup_llm
    \/ setup_llm_with_search
    \/ create_workflow
    \/ start_run
    \/ setup_agent
    \/ agent_step
    \/ agent_final
    \/ agent_error
    \/ call_tool
    \/ run_search_web
    \/ run_record_notes
    \/ run_write_report
    \/ run_review_report
    \/ run_handoff
    \/ render
    \/ complete

Spec == Init /\ [][Next]_vars

----------------------------------------------------------------------------
(* The loop of run_workflow over any event stream: the events are drawn  *)
(* from StreamEvents in any order instead of coming from the workflow.   *)

OutputLens == {0, 1, TruncLimit - 1, TruncLimit, TruncLimit + 1, TruncLimit + MaxExtra}

StreamOutputs ==
    {StrOutput(Fill(n)) : n \in OutputLens}
    \cup {ToolOutput(Fill(n)) : n \in {1, TruncLimit + MaxExtra}}
    \cup {IntOutput(n) : n \in {0 - 7, 1234}}
    \cup {NoneOutput}

StreamCalls ==
    {[tool_name |-> "search_web", tool_kwargs |-> <<Fill(1)>>, to_agent |-> NoAgent],
     [tool_name |-> "handoff", tool_kwargs |-> <<>>, to_agent |-> "WriteAgent"]}

StreamEvents ==
    {AgentInput(a) : a \in AgentNames}
    \cup {AgentOutput(a, c, t) : a \in AgentNames, c \in Contents,
                                 t \in {<<>>, <<"search_web", "record_notes">>}}
    \cup {ToolCall(c) : c \in StreamCalls}
    \cup {ToolCallResult(c, o) : c \in {NoCall}, o \in StreamOutputs}

\* The stream delivers one more event.
stream_event ==
    /\ pc = "streaming"
    /\ phase = "external"
    /\ streamed < MaxEvents
    /\ \E ev \in StreamEvents : Emit(ev)
    /\ UNCHANGED <<pc, startVars, runVars, renderVars, final>>

\* The stream ends.
stream_end ==
    /\ pc = "streaming"
    /\ phase = "external"
    /\ phase' = "done"
    /\ UNCHANGED <<pc, startVars, store, active, pending, turns, ret, last, handoff>>
    /\ UNCHANGED <<streamVars, renderVars, final>>

\* The state once handler = agent_workflow.run(...) has returned.
InitRender ==
    /\ pc = "streaming"
    /\ env = Some(ApiKey)
    /\ dotenv = None
    /\ clients = {"llm", "llm_with_search"}
    /\ workflow = TRUE
    /\ network = FALSE
    /\ store = [k \in {"state"} |-> initial_state]
    /\ active = root_agent
    /\ phase = "external"
    /\ pending = NoCall
    /\ turns = 0
    /\ ret = <<>>
    /\ last = NoLast
    /\ handoff = <<>>
    /\ queue = <<>>
    /\ streamed = 0
    /\ current_agent = NoAgent
    /\ event = NoEvent
    /\ printed = <<>>
    /\ banners = 0
    /\ carried = [last |-> NoAgent, changes |-> 0]
    /\ final = <<>>

NextRender ==
    \/ stream_event
    \/ stream_end
    \/ render
    \/ complete

SpecRender == InitRender /\ [][NextRender]_vars

----------------------------------------------------------------------------
(* The properties. *)

Running == pc \in {"streaming", "aborted", "complete"}
Notes(st) == st["state"]["research_notes"]
Report(st) == st["state"]["report_content"]
Review(st) == st["state"]["review"]

\* C1: after any sequence of tool calls, research_notes holds for every
\* title the notes of the latest record_notes call with that title, and no
\* other title, whatever other tool calls were made in between.
C1_LastWriteWins ==
    Running =>
        /\ DOMAIN Notes(store) = DOMAIN last.notes
        /\ \A t \in DOMAIN last.notes : Notes(store)[t] = last.notes[t]

\* A title was recorded twice with different notes and holds the later ones.
C1_Witness ==
    /\ Running
    /\ \E t \in DOMAIN last.prev :
          /\ last.prev[t] # last.notes[t]
          /\ Notes(store)[t] = last.notes[t]

\* C2: in every state a reader of the store can see, report_content is the
\* default or the whole argument of a completed write_report call (the
\* latest), and review is the default or the whole argument of a completed
\* review_report call (the latest); the final read sees the same.
C2_WholeValues ==
    Running =>
        /\ Report(store) = IF last.report = <<>> THEN NotWrittenYet ELSE last.report[1]
        /\ Review(store) = IF last.review = <<>> THEN ReviewRequired ELSE last.review[1]
        /\ pc = "complete" => final = <<Report(store), Review(store)>>

\* Both fields were overwritten and the final read saw both values.
C2_Witness ==
    /\ pc = "complete"
    /\ last.report = <<Fill(MaxTextLen)>>
    /\ last.review # <<>>
    /\ final = <<Fill(MaxTextLen), last.review[1]>>

\* C3: when a handoff from ResearchAgent to WriteAgent is honored, every
\* completed record_notes call is in the store: research_notes holds, for
\* each title recorded, the notes of the latest call, and no call is pending.
C3_NotesBeforeHandoff ==
    [][(pc = "streaming" /\ active = "ResearchAgent" /\ active' = "WriteAgent") =>
          /\ pending' = NoCall
          /\ \A t \in DOMAIN last'.notes :
                /\ t \in DOMAIN Notes(store')
                /\ Notes(store')[t] = last'.notes[t]]_vars

\* WriteAgent became active by a handoff from ResearchAgent after notes
\* were recorded.
C3_Witness ==
    /\ pc = "streaming"
    /\ handoff = <<"ResearchAgent", "WriteAgent">>
    /\ active = "WriteAgent"
    /\ phase = "setup"
    /\ \E t \in Titles : t \in DOMAIN last.notes /\ Notes(store)[t] = Fill(MaxTextLen)

DeclaredEdges ==
    {<<"ResearchAgent", "WriteAgent">>,
     <<"WriteAgent", "ReviewAgent">>, <<"WriteAgent", "ResearchAgent">>,
     <<"ReviewAgent", "ResearchAgent">>, <<"ReviewAgent", "WriteAgent">>}

C5_InitialState ==
    /\ (Running /\ ret = <<>>) =>
          /\ DOMAIN store = {"state"}
          /\ DOMAIN store["state"] = {"research_notes", "report_content", "review"}
          /\ DOMAIN Notes(store) = {}
          /\ Report(store) = NotWrittenYet
          /\ Review(store) = ReviewRequired
    /\ (pc = "complete" /\ last.report = <<>> /\ last.review = <<>>) =>
          final = <<NotWrittenYet, ReviewRequired>>

\* A run that recorded notes completed without a report or a review.
C5_Witness ==
    /\ pc = "complete"
    /\ last.notes # EmptyDict
    /\ last.report = <<>>
    /\ last.review = <<>>
    /\ final = <<NotWrittenYet, ReviewRequired>>

\* C6: when GOOGLE_API_KEY is unset or empty once the .env file is loaded,
\* the script gets no further than the check, which raises: no LLM client
\* is constructed, no workflow is created, no LLM request is sent, no run
\* state exists and no event is emitted.
C6_MissingKeyFailsFirst ==
    (pc # "load_dotenv" /\ (env.none \/ env.val = <<>>)) =>
        /\ pc \in {"check_key", "failed"}
        /\ clients = {}
        /\ ~workflow
        /\ ~network
        /\ DOMAIN store = {}
        /\ active = NoAgent
        /\ streamed = 0

\* The key is set but empty, the .env file has none, and start-up failed.
C6_Witness ==
    /\ pc = "failed"
    /\ env = Some(<<>>)
    /\ clients = {}

\* The text form of a tool output.
TextOf(output) ==
    IF output.kind \in {"str", "ToolOutput"} THEN output.text ELSE Str(output)

\* C7: for a tool-call-result event the renderer does not raise, and what
\* it prints of the output's text form is its first 300 characters at most:
\* the whole text when it has 300 characters or fewer, a prefix of no more
\* than 300 characters otherwise.
C7_TruncatedOutput ==
    event.type = "ToolCallResult" =>
        /\ pc # "aborted"
        /\ Len(printed) = 2
        /\ printed[2].label = "    Output: "
        /\ LET text == TextOf(event.tool_output)
               shown == printed[2].text
           IN /\ Len(shown) <= 300
              /\ Len(shown) <= Len(text)
              /\ shown = SubSeq(text, 1, Len(shown))
              /\ Len(text) <= 300 => shown = text
              /\ Len(text) > 300 => Len(shown) = 300

\* An output object whose text has more than 300 characters was cut to 300.
C7_Witness ==
    /\ event.type = "ToolCallResult"
    /\ event.tool_output.kind = "ToolOutput"
    /\ Len(event.tool_output.text) > 300
    /\ Len(printed[2].text) = 300

HasLine(label) == \E i \in 1..Len(printed) : printed[i].label = label

\* C8: for every agent-output event handled, the content is printed when it
\* is not empty and the planned tool names are printed when there are tool
\* calls, also when the event is the first to carry a new agent name.
C8_AgentOutputPrinted ==
    event.type = "AgentOutput" =>
        /\ event.content # <<>> =>
              \E i \in 1..Len(printed) :
                  printed[i].label = "Output: " /\ printed[i].text = event.content
        /\ event.tool_calls # <<>> =>
              \E i \in 1..Len(printed) :
                  /\ printed[i].label = "Planning to use tools: "
                  /\ printed[i].list = event.tool_calls

\* C9: the number of banners printed is the number of changes in the
\* sequence of agent names the handled events carried; current_agent is the
\* last name carried; the event handled last printed a banner exactly when
\* it carried a name, and the banner shows that name.
C9_BannerOnChange ==
    /\ banners = carried.changes
    /\ current_agent = carried.last
    /\ HasAgentName(event) => current_agent = event.current_agent_name
    /\ HasLine("Agent: ") =>
          /\ HasAgentName(event)
          /\ printed = <<Line("Agent: ", <<>>, <<event.current_agent_name>>, <<>>, "")>>

\* Three agent names were carried with one repetition: two banners, and the
\* event handled last, which carried a name, printed none.
C9_Witness ==
    /\ banners = 2
    /\ event.type = "AgentInput"
    /\ event.current_agent_name = "WriteAgent"
    /\ printed = <<>>
    /\ current_agent = "WriteAgent"

\* C10: a step of a run changes the store only as the tool in flight owns
\* it: record_notes(n, t) only research_notes[t], write_report only
\* report_content, review_report only review; search_web, failing or not,
\* and every other step change nothing of it.
C10_Frame ==
    [][(pc = "streaming" /\ store' # store) =>
          /\ phase = "exec"
          /\ pending.tool_name \in {"record_notes", "write_report", "review_report"}
          /\ DOMAIN store' = DOMAIN store
          /\ DOMAIN store'["state"] = DOMAIN store["state"]
          /\ pending.tool_name = "record_notes" =>
                /\ Report(store') = Report(store)
                /\ Review(store') = Review(store)
                /\ DOMAIN Notes(store') = DOMAIN Notes(store) \cup {pending.tool_kwargs[2]}
                /\ \A t \in DOMAIN Notes(store) :
                      t # pending.tool_kwargs[2] => Notes(store')[t] = Notes(store)[t]
          /\ pending.tool_name = "write_report" =>
                /\ Notes(store') = Notes(store)
                /\ Review(store') = Review(store)
          /\ pending.tool_name = "review_report" =>
                /\ Notes(store') = Notes(store)
                /\ Report(store') = Report(store)]_vars

\* A search_web call failed after notes for both titles were recorded, and
\* the store still holds them.
C10_Witness ==
    /\ pc = "aborted"
    /\ pending.tool_name = "search_web"
    /\ DOMAIN Notes(store) = Titles
    /\ Report(store) = NotWrittenYet

====
